---- MODULE Spec2Model ----
(***************************************************************************)
(* The DPLL SAT solver of "Algorithmic/Constraint Solver" (SatSolver:      *)
(* add_clause, solve, dpll_solve, simplify), modelled as a state machine:  *)
(* the formula is built by add_clause, solve() then runs dpll_solve, whose *)
(* recursion is an explicit stack of frames, one frame per call, each      *)
(* owning its clauses and its assignment as the Rust values do.            *)
(***************************************************************************)
EXTENDS Integers, Sequences, FiniteSets, TLC

\* ----------------------------------------------------------------- bounds
\* Variable identifiers used in literals are 1..MaxId.
MaxId == 2
\* add_clause is called at most MaxClauses times.
MaxClauses == 2
\* Literal occurrences in the whole formula (duplicates counted).
MaxLits == 4
\* The num_vars handed to SatSolver::new ranges over 0..MaxNumVars.
MaxNumVars == 1
\* The same three bounds, and the longest clause, for the runs that solve a
\* formula and a reordering of it (PairSpec).
PairMaxId == 2
PairMaxClauses == 3
PairMaxLits == 6
PairMaxLen == 3
\* The same three bounds for the runs checked for termination (LiveSpec).
LiveMaxId == 2
LiveMaxClauses == 2
LiveMaxLits == 3
\* The history counters branches and props stop counting at CountCap.
CountCap == 3
\* The same three bounds, and the largest num_vars, for the runs that solve
\* a formula under two declared num_vars (DeclSpec).
DeclMaxId == 2
DeclMaxClauses == 2
DeclMaxLits == 3
DeclMaxNumVars == 1
\* The same three bounds for the runs that call simplify on its own
\* (SimplifySpec).
SimMaxId == 2
SimMaxClauses == 2
SimMaxLits == 3
\* The cache: keys are 1..MaxKey, values 1..MaxValue, and the capacity handed
\* to Cache::new ranges over 0..MaxCapacity.
MaxKey == 3
MaxValue == 2
MaxCapacity == 2

\* ----------------------------------------------------------------- values
\* struct Literal { id, negated }, with the ids 1..n
Literal(n) == [id : 1..n, negated : BOOLEAN]

\* Literal::new(id, negated)
New(i, n) == [id |-> i, negated |-> n]

\* Literal::not(&self)
Not(l) == [id |-> l.id, negated |-> ~l.negated]

\* enum Solution; None is "no value returned yet" (not a Rust value).
None == [kind |-> "None", assignment |-> <<>>]
Unsatisfiable == [kind |-> "Unsatisfiable", assignment |-> <<>>]
Satisfiable(a) == [kind |-> "Satisfiable", assignment |-> a]

\* HashMap::insert(k, v): the value of an existing key is replaced.
Insert(a, k, v) == [x \in (DOMAIN a) \cup {k} |-> IF x = k THEN v ELSE a[x]]

\* HashMap::new()
EmptyMap == <<>>

\* ------------------------------------------------------------ simplify
\* Mutant of Contains: literals are compared by id alone.
ContainsIgnoringSign(c, l) == \E i \in 1..Len(c) : c[i].id = l.id

\* Vec::contains
Contains(c, l) == \E i \in 1..Len(c) : c[i] = l

\* clause.iter().position(|&l| l == x): index of the first occurrence, 0 if none.
Position(c, l) == IF Contains(c, l)
                  THEN CHOOSE i \in 1..Len(c) : c[i] = l /\ \A j \in 1..(i-1) : c[j] # l
                  ELSE 0

\* Mutant of RemoveAt: Vec::swap_remove(pos), the last element takes the
\* place of the removed one.
SwapRemoveAt(c, pos) == [i \in 1..(Len(c)-1) |-> IF i = pos THEN c[Len(c)] ELSE c[i]]

\* Vec::remove(pos)
RemoveAt(c, pos) == [i \in 1..(Len(c)-1) |-> IF i < pos THEN c[i] ELSE c[i+1]]

\* The body of the for loop of simplify for one clause: the first
\* occurrence of not_lit, if any, is removed.
Strike(c, l) == IF Position(c, l) = 0 THEN c ELSE RemoveAt(c, Position(c, l))

\* Mutant of Retain: no clause is removed.
RetainAll(clauses, lit) == clauses

\* Mutant of Retain: empty clauses are dropped with the satisfied ones.
RetainDropEmpty(clauses, lit) ==
    SelectSeq(clauses, LAMBDA c : c # <<>> /\ ~(\E i \in 1..Len(c) : c[i] = lit))

\* Mutant of Retain: only the first clause that contains lit is removed.
RetainAllButFirst(clauses, lit) ==
    LET hits == {i \in 1..Len(clauses) : \E j \in 1..Len(clauses[i]) : clauses[i][j] = lit}
    IN IF hits = {} THEN clauses
       ELSE LET h == CHOOSE i \in hits : \A k \in hits : i <= k
            IN [i \in 1..(Len(clauses) - 1) |->
                   IF i < h THEN clauses[i] ELSE clauses[i + 1]]

\* clauses.retain(|c| !c.contains(&lit))
Retain(clauses, lit) == SelectSeq(clauses, LAMBDA c : ~Contains(c, lit))

\* fn simplify(&self, clauses: &mut Vec<Clause>, lit) -> bool.  The result is
\* the returned bool and the clauses as the call leaves them: on a conflict
\* the loop returns at the first clause it empties, later clauses untouched.
Simplify(clauses, lit) ==
    LET kept == Retain(clauses, lit)
        not_lit == Not(lit)
        emptied == {i \in 1..Len(kept) : kept[i] = <<not_lit>>}
        stop == IF emptied = {} THEN Len(kept) + 1
                ELSE CHOOSE i \in emptied : \A j \in emptied : i <= j
    IN [ok |-> emptied = {},
        clauses |-> [i \in 1..Len(kept) |->
                        IF i <= stop THEN Strike(kept[i], not_lit) ELSE kept[i]]]

\* ------------------------------------------------------------- state
VARIABLES
    clauses,    \* SatSolver.clauses
    num_vars,   \* SatSolver.num_vars
    phase,      \* "building" | "solving" | "done"
    stack,      \* the dpll_solve calls in progress, innermost last
    ret,        \* the Solution returned by the call that ended last
    branches,   \* branching steps taken by the current solve() (history)
    props,      \* unit-propagation passes of the current solve() (history)
    first,      \* the formula and result of an earlier solve(), if any (history)
    simplified  \* the simplify calls made on their own: arguments and results

\* The cache of "Algorithmic/Online Caching Simulator".
VARIABLES
    store,          \* Cache.store
    policy,         \* which policy Cache.policy is: "LRU", "FIFO"; "none": no cache
    access_order,   \* LRUPolicy.access_order
    queue,          \* FIFOPolicy.queue
    capacity,       \* Cache.capacity
    got,            \* what the last get returned: <<>> is None, <<v>> is Some(v)
    call,           \* the last call on the cache (history)
    used,           \* for each stored key, the rank of the time of its last use (history)
    inserted,       \* for each stored key, the rank of the time of its insertion (history)
    evicted         \* the key the last call removed from the store, if any (history)

solverVars == <<clauses, num_vars, phase, stack, ret, branches, props, first, simplified>>

cacheVars == <<store, policy, access_order, queue, capacity, got, call, used, inserted, evicted>>

vars == <<solverVars, cacheVars>>

NoCall == [op |-> "new", key |-> 0]

\* No cache has been created.
NoCache ==
    /\ store = <<>>
    /\ policy = "none"
    /\ access_order = <<>>
    /\ queue = <<>>
    /\ capacity = 0
    /\ got = <<>>
    /\ call = NoCall
    /\ used = <<>>
    /\ inserted = <<>>
    /\ evicted = <<>>

\* One dpll_solve call: its clauses, its assignment and where it stands.
Frame(cl, a, pc) == [clauses |-> cl, assignment |-> a, pc |-> pc]

Top == stack[Len(stack)]

\* The stack with its innermost frame replaced.
SetTop(f) == [stack EXCEPT ![Len(stack)] = f]

\* The stack with its innermost frame removed.
Pop == SubSeq(stack, 1, Len(stack) - 1)

RECURSIVE SumLen(_)
SumLen(cls) == IF cls = <<>> THEN 0 ELSE Len(Head(cls)) + SumLen(Tail(cls))

\* A history counter one higher, up to CountCap.
Count(n) == IF n < CountCap THEN n + 1 ELSE n

NoFirst == [clauses |-> <<>>, num_vars |-> 0, result |-> None]

\* SatSolver::new(n)
Declared(n) ==
    /\ clauses = <<>>
    /\ num_vars = n
    /\ phase = "building"
    /\ stack = <<>>
    /\ ret = None
    /\ branches = 0
    /\ props = 0
    /\ first = NoFirst
    /\ simplified = <<>>
    /\ NoCache

\* SatSolver::new(num_vars)
Init ==
    /\ clauses = <<>>
    /\ num_vars \in 0..MaxNumVars
    /\ phase = "building"
    /\ stack = <<>>
    /\ ret = None
    /\ branches = 0
    /\ props = 0
    /\ first = NoFirst
    /\ simplified = <<>>
    /\ NoCache

\* pub fn add_clause(&mut self, clause), called before solve().
AddClause(c) ==
    /\ phase = "building"
    /\ clauses' = Append(clauses, c)
    /\ UNCHANGED <<num_vars, phase, stack, ret, branches, props, first>>
    /\ UNCHANGED <<simplified, cacheVars>>

\* Mutant of EnterSolve: the search starts with the variables 1..num_vars
\* false instead of an empty assignment.
EnterSolveAllFalse(cl) == <<Frame(cl, [v \in 1..num_vars |-> FALSE], "propagate")>>

\* The call dpll_solve(self.clauses.clone(), HashMap::new()) of solve().
EnterSolve(cl) == <<Frame(cl, EmptyMap, "propagate")>>

\* pub fn solve(&self)
Solve ==
    /\ phase = "building"
    /\ phase' = "solving"
    /\ stack' = EnterSolve(clauses)
    /\ UNCHANGED <<clauses, num_vars, ret, branches, props, first>>
    /\ UNCHANGED <<simplified, cacheVars>>

\* solve() once more on the solver whose solve() has returned.
SolveAgain ==
    /\ phase = "done" /\ first = NoFirst
    /\ first' = [clauses |-> clauses, num_vars |-> num_vars, result |-> ret]
    /\ phase' = "solving"
    /\ stack' = EnterSolve(clauses)
    /\ ret' = None
    /\ branches' = 0
    /\ props' = 0
    /\ UNCHANGED <<clauses, num_vars>>
    /\ UNCHANGED <<simplified, cacheVars>>

\* The permutations of 1..n.
Perms(n) == {p \in [1..n -> 1..n] : \A i, j \in 1..n : p[i] = p[j] => i = j}

\* A second solver: SatSolver::new, the add_clause calls of the first in the
\* order p, then solve().
SolvePermuted(p) ==
    /\ phase = "done" /\ first = NoFirst
    /\ first' = [clauses |-> clauses, num_vars |-> num_vars, result |-> ret]
    /\ clauses' = [i \in 1..Len(clauses) |-> clauses[p[i]]]
    /\ phase' = "solving"
    /\ stack' = EnterSolve(clauses')
    /\ ret' = None
    /\ branches' = 0
    /\ props' = 0
    /\ UNCHANGED num_vars
    /\ UNCHANGED <<simplified, cacheVars>>

\* A second solver: SatSolver::new(n), the add_clause calls of the first in
\* their order, then solve().
SolveDeclared(n) ==
    /\ phase = "done" /\ first = NoFirst
    /\ first' = [clauses |-> clauses, num_vars |-> num_vars, result |-> ret]
    /\ num_vars' = n
    /\ phase' = "solving"
    /\ stack' = EnterSolve(clauses)
    /\ ret' = None
    /\ branches' = 0
    /\ props' = 0
    /\ UNCHANGED clauses
    /\ UNCHANGED <<simplified, cacheVars>>

\* The innermost call returns s to its caller, or to solve() if it has none.
Return(s) ==
    /\ stack' = Pop
    /\ ret' = s
    /\ phase' = IF Len(stack) = 1 THEN "done" ELSE "solving"

\* Indices of the clauses of length one.
Units(cl) == {i \in 1..Len(cl) : Len(cl[i]) = 1}

\* Mutant of UnitIndex: the scan keeps the last clause of length one.
UnitIndexLast(cl) == CHOOSE i \in Units(cl) : \A j \in Units(cl) : i >= j

\* The scan of lines 58-63: the first clause of length one.
UnitIndex(cl) == CHOOSE i \in Units(cl) : \A j \in Units(cl) : i <= j

\* Mutant of UnitPropagate: the pass simplifies the solver's own clauses, as
\* if dpll_solve were handed self.clauses and not a clone.
UnitPropagateInPlace ==
    /\ phase = "solving" /\ stack # <<>>
    /\ Top.pc = "propagate"
    /\ Units(Top.clauses) # {}
    /\ LET lit == Top.clauses[UnitIndex(Top.clauses)][1]
           val == ~lit.negated
           a == Top.assignment
           a2 == Insert(a, lit.id, val)
           s == Simplify(Top.clauses, lit)
       IN /\ IF lit.id \in DOMAIN a /\ a[lit.id] # val
             THEN Return(Unsatisfiable)
             ELSE IF ~s.ok
             THEN Return(Unsatisfiable)
             ELSE IF s.clauses = <<>>
             THEN Return(Satisfiable(a2))
             ELSE /\ stack' = SetTop(Frame(s.clauses, a2, "propagate"))
                  /\ UNCHANGED <<phase, ret>>
          /\ clauses' = s.clauses
    /\ props' = Count(props)
    /\ UNCHANGED <<num_vars, branches, first>>
    /\ UNCHANGED <<simplified, cacheVars>>

\* Mutant of UnitPropagate: the forced value is inserted without the check
\* against the value the variable has.
UnitPropagateOverwrites ==
    /\ phase = "solving" /\ stack # <<>>
    /\ Top.pc = "propagate"
    /\ Units(Top.clauses) # {}
    /\ LET lit == Top.clauses[UnitIndex(Top.clauses)][1]
           val == ~lit.negated
           a == Top.assignment
           a2 == Insert(a, lit.id, val)
           s == Simplify(Top.clauses, lit)
       IN IF ~s.ok
          THEN Return(Unsatisfiable)
          ELSE IF s.clauses = <<>>
          THEN Return(Satisfiable(a2))
          ELSE /\ stack' = SetTop(Frame(s.clauses, a2, "propagate"))
               /\ UNCHANGED <<phase, ret>>
    /\ props' = Count(props)
    /\ UNCHANGED <<clauses, num_vars, branches, first>>
    /\ UNCHANGED <<simplified, cacheVars>>

\* One pass of the loop of lines 56-85 that finds a unit clause.
UnitPropagate ==
    /\ phase = "solving" /\ stack # <<>>
    /\ Top.pc = "propagate"
    /\ Units(Top.clauses) # {}
    /\ LET lit == Top.clauses[UnitIndex(Top.clauses)][1]
           val == ~lit.negated
           a == Top.assignment
           a2 == Insert(a, lit.id, val)
           s == Simplify(Top.clauses, lit)
       IN IF lit.id \in DOMAIN a /\ a[lit.id] # val
          THEN Return(Unsatisfiable)
          ELSE IF ~s.ok
          THEN Return(Unsatisfiable)
          ELSE IF s.clauses = <<>>
          THEN Return(Satisfiable(a2))
          ELSE /\ stack' = SetTop(Frame(s.clauses, a2, "propagate"))
               /\ UNCHANGED <<phase, ret>>
    /\ props' = Count(props)
    /\ UNCHANGED <<clauses, num_vars, branches, first>>
    /\ UNCHANGED <<simplified, cacheVars>>

\* Mutant of HasEmptyClause: all() written for any().
AllClausesEmpty(cl) == \A i \in 1..Len(cl) : cl[i] = <<>>

\* clauses.iter().any(|c| c.is_empty())
HasEmptyClause(cl) == \E i \in 1..Len(cl) : cl[i] = <<>>

\* Mutant of PropagateDone: the Satisfiable result gives false to the
\* variables 1..num_vars that have no value.
PropagateDoneTotal ==
    /\ phase = "solving" /\ stack # <<>>
    /\ Top.pc = "propagate"
    /\ Units(Top.clauses) = {}
    /\ IF HasEmptyClause(Top.clauses)
       THEN Return(Unsatisfiable)
       ELSE IF Top.clauses = <<>>
       THEN Return(Satisfiable([v \in (DOMAIN Top.assignment) \cup (1..num_vars) |->
                                   IF v \in DOMAIN Top.assignment
                                   THEN Top.assignment[v] ELSE FALSE]))
       ELSE /\ stack' = SetTop(Frame(Top.clauses, Top.assignment, "branch"))
            /\ UNCHANGED <<phase, ret>>
    /\ UNCHANGED <<clauses, num_vars, branches, props, first>>
    /\ UNCHANGED <<simplified, cacheVars>>

\* The pass that finds no unit clause (break), then lines 91-98.
PropagateDone ==
    /\ phase = "solving" /\ stack # <<>>
    /\ Top.pc = "propagate"
    /\ Units(Top.clauses) = {}
    /\ IF HasEmptyClause(Top.clauses)
       THEN Return(Unsatisfiable)
       ELSE IF Top.clauses = <<>>
       THEN Return(Satisfiable(Top.assignment))
       ELSE /\ stack' = SetTop(Frame(Top.clauses, Top.assignment, "branch"))
            /\ UNCHANGED <<phase, ret>>
    /\ UNCHANGED <<clauses, num_vars, branches, props, first>>
    /\ UNCHANGED <<simplified, cacheVars>>

\* Mutant of BranchVar: the variable of the last literal of the first clause.
BranchVarLastLiteral(cl) == cl[1][Len(cl[1])].id

\* let var = clauses[0][0].id
BranchVar(cl) == cl[1][1].id

\* Mutant of TryTrue: the branching variable is the first variable of any
\* clause, as if the clauses were scanned in no fixed order.
TryTrueAnyClause ==
    /\ phase = "solving" /\ stack # <<>>
    /\ Top.pc = "branch"
    /\ \E k \in 1..Len(Top.clauses) :
         LET var == Top.clauses[k][1].id
             left_assignment == Insert(Top.assignment, var, TRUE)
             s == Simplify(Top.clauses, New(var, FALSE))
         IN IF s.ok
            THEN stack' = Append(SetTop(Frame(Top.clauses, Top.assignment, "left")),
                                 Frame(s.clauses, left_assignment, "propagate"))
            ELSE stack' = SetTop(Frame(Top.clauses, Top.assignment, "right"))
    /\ branches' = Count(branches)
    /\ UNCHANGED <<clauses, num_vars, phase, ret, props, first>>
    /\ UNCHANGED <<simplified, cacheVars>>

\* Mutant of TryTrue: a branching variable beyond num_vars is refused.
TryTrueWithinNumVars ==
    /\ phase = "solving" /\ stack # <<>>
    /\ Top.pc = "branch"
    /\ LET var == BranchVar(Top.clauses)
           left_assignment == Insert(Top.assignment, var, TRUE)
           s == Simplify(Top.clauses, New(var, FALSE))
       IN IF var > num_vars
          THEN Return(Unsatisfiable)
          ELSE /\ IF s.ok
                  THEN stack' = Append(SetTop(Frame(Top.clauses, Top.assignment, "left")),
                                       Frame(s.clauses, left_assignment, "propagate"))
                  ELSE stack' = SetTop(Frame(Top.clauses, Top.assignment, "right"))
               /\ UNCHANGED <<phase, ret>>
    /\ branches' = Count(branches)
    /\ UNCHANGED <<clauses, num_vars, props, first>>
    /\ UNCHANGED <<simplified, cacheVars>>

\* Mutant of TryTrue: the True branch works on the call's own clauses and
\* assignment, not on clones.
TryTrueNoClone ==
    /\ phase = "solving" /\ stack # <<>>
    /\ Top.pc = "branch"
    /\ LET var == BranchVar(Top.clauses)
           left_assignment == Insert(Top.assignment, var, TRUE)
           s == Simplify(Top.clauses, New(var, FALSE))
       IN IF s.ok
          THEN stack' = Append(SetTop(Frame(s.clauses, left_assignment, "left")),
                               Frame(s.clauses, left_assignment, "propagate"))
          ELSE stack' = SetTop(Frame(s.clauses, left_assignment, "right"))
    /\ branches' = Count(branches)
    /\ UNCHANGED <<clauses, num_vars, phase, ret, props, first>>
    /\ UNCHANGED <<simplified, cacheVars>>

\* Lines 103-111: the True branch up to the recursive call.
TryTrue ==
    /\ phase = "solving" /\ stack # <<>>
    /\ Top.pc = "branch"
    /\ LET var == BranchVar(Top.clauses)
           left_assignment == Insert(Top.assignment, var, TRUE)
           s == Simplify(Top.clauses, New(var, FALSE))
       IN IF s.ok
          THEN stack' = Append(SetTop(Frame(Top.clauses, Top.assignment, "left")),
                               Frame(s.clauses, left_assignment, "propagate"))
          ELSE stack' = SetTop(Frame(Top.clauses, Top.assignment, "right"))
    /\ branches' = Count(branches)
    /\ UNCHANGED <<clauses, num_vars, phase, ret, props, first>>
    /\ UNCHANGED <<simplified, cacheVars>>

\* Mutant of LeftReturns: a failed True branch fails the call.
LeftReturnsNoBacktrack ==
    /\ phase = "solving" /\ stack # <<>>
    /\ Top.pc = "left"
    /\ IF ret.kind = "Satisfiable"
       THEN Return(Satisfiable(ret.assignment))
       ELSE Return(Unsatisfiable)
    /\ UNCHANGED <<clauses, num_vars, branches, props, first>>
    /\ UNCHANGED <<simplified, cacheVars>>

\* Lines 111-114: the recursive call of the True branch has returned.
LeftReturns ==
    /\ phase = "solving" /\ stack # <<>>
    /\ Top.pc = "left"
    /\ IF ret.kind = "Satisfiable"
       THEN Return(Satisfiable(ret.assignment))
       ELSE /\ stack' = SetTop(Frame(Top.clauses, Top.assignment, "right"))
            /\ ret' = None
            /\ UNCHANGED phase
    /\ UNCHANGED <<clauses, num_vars, branches, props, first>>
    /\ UNCHANGED <<simplified, cacheVars>>

\* Lines 117-125: the False branch.
TryFalse ==
    /\ phase = "solving" /\ stack # <<>>
    /\ Top.pc = "right"
    /\ LET var == BranchVar(Top.clauses)
           right_assignment == Insert(Top.assignment, var, FALSE)
           s == Simplify(Top.clauses, New(var, TRUE))
       IN IF s.ok
          THEN /\ stack' = Append(SetTop(Frame(Top.clauses, Top.assignment, "right_call")),
                                  Frame(s.clauses, right_assignment, "propagate"))
               /\ UNCHANGED <<phase, ret>>
          ELSE Return(Unsatisfiable)
    /\ UNCHANGED <<clauses, num_vars, branches, props, first>>
    /\ UNCHANGED <<simplified, cacheVars>>

\* Mutant of RightReturns: the result of the False branch is dropped.
RightReturnsUnsatisfiable ==
    /\ phase = "solving" /\ stack # <<>>
    /\ Top.pc = "right_call"
    /\ Return(Unsatisfiable)
    /\ UNCHANGED <<clauses, num_vars, branches, props, first>>
    /\ UNCHANGED <<simplified, cacheVars>>

\* Line 122: return self.dpll_solve(right_clauses, right_assignment)
RightReturns ==
    /\ phase = "solving" /\ stack # <<>>
    /\ Top.pc = "right_call"
    /\ Return(ret)
    /\ UNCHANGED <<clauses, num_vars, branches, props, first>>
    /\ UNCHANGED <<simplified, cacheVars>>

\* The steps of dpll_solve.
SolverStep ==
    \/ UnitPropagate
    \/ PropagateDone
    \/ TryTrue
    \/ LeftReturns
    \/ TryFalse
    \/ RightReturns

\* add_clause with a clause over the ids 1..n, within the bounds.
Build(n, maxClauses, maxLits, maxLen) ==
    /\ Len(clauses) < maxClauses
    /\ \E k \in 0..maxLen :
           /\ SumLen(clauses) + k <= maxLits
           /\ \E c \in [1..k -> Literal(n)] : AddClause(c)

Next ==
    \/ Build(MaxId, MaxClauses, MaxLits, MaxLits)
    \/ Solve
    \/ SolverStep

Spec == Init /\ [][Next]_vars

\* Every formula is solved, and solved once more, as it stands or with its
\* clauses reordered.
PairNext ==
    \/ Build(PairMaxId, PairMaxClauses, PairMaxLits, PairMaxLen)
    \/ Solve
    \/ SolverStep
    \/ SolveAgain
    \/ \E p \in Perms(Len(clauses)) : SolvePermuted(p)

\* SatSolver::new(PairMaxId)
PairInit == Declared(PairMaxId)

PairSpec == PairInit /\ [][PairNext]_vars

\* Every formula is solved twice by the same solver.
AgainNext ==
    \/ Build(MaxId, MaxClauses, MaxLits, MaxLits)
    \/ Solve
    \/ SolverStep
    \/ SolveAgain

\* SatSolver::new(MaxId)
AgainInit == Declared(MaxId)

AgainSpec == AgainInit /\ [][AgainNext]_vars

\* Every formula is solved by a solver declared with one num_vars and by a
\* solver declared with another.
DeclNext ==
    \/ Build(DeclMaxId, DeclMaxClauses, DeclMaxLits, DeclMaxLits)
    \/ Solve
    \/ SolverStep
    \/ \E n \in (0..DeclMaxNumVars) \ {num_vars} : SolveDeclared(n)

\* SatSolver::new(num_vars)
DeclInit ==
    /\ clauses = <<>>
    /\ num_vars \in 0..DeclMaxNumVars
    /\ phase = "building"
    /\ stack = <<>>
    /\ ret = None
    /\ branches = 0
    /\ props = 0
    /\ first = NoFirst
    /\ simplified = <<>>
    /\ NoCache

DeclSpec == DeclInit /\ [][DeclNext]_vars

\* simplify(&mut working, lit) on a clone of the clauses built.
CallSimplify(lit) ==
    /\ phase = "building" /\ simplified = <<>>
    /\ LET s == Simplify(clauses, lit)
       IN simplified' = <<[lit |-> lit, before |-> clauses,
                           ok |-> s.ok, after |-> s.clauses]>>
    /\ phase' = "simplify"
    /\ UNCHANGED <<clauses, num_vars, stack, ret, branches, props, first, cacheVars>>

\* simplify(&mut working, lit) once more, on the clauses the first call left
\* when it returned true.
CallSimplifyAgain(lit) ==
    /\ phase = "simplify" /\ Len(simplified) = 1 /\ simplified[1].ok
    /\ LET s == Simplify(simplified[1].after, lit)
       IN simplified' = Append(simplified,
                               [lit |-> lit, before |-> simplified[1].after,
                                ok |-> s.ok, after |-> s.clauses])
    /\ UNCHANGED <<clauses, num_vars, phase, stack, ret, branches, props, first, cacheVars>>

\* Every formula is simplified with every literal, and the result with every
\* literal again.
SimplifyNext ==
    \/ Build(SimMaxId, SimMaxClauses, SimMaxLits, SimMaxLits)
    \/ \E lit \in Literal(SimMaxId) : CallSimplify(lit)
    \/ \E lit \in Literal(SimMaxId) : CallSimplifyAgain(lit)

\* SatSolver::new(SimMaxId)
SimplifyInit == Declared(SimMaxId)

SimplifySpec == SimplifyInit /\ [][SimplifyNext]_vars

\* The scheduling of a sequential program: a call in progress takes its
\* next step.
LiveNext ==
    \/ Build(LiveMaxId, LiveMaxClauses, LiveMaxLits, LiveMaxLits)
    \/ Solve
    \/ SolverStep

\* SatSolver::new(LiveMaxId)
LiveInit == Declared(LiveMaxId)

LiveSpec == LiveInit /\ [][LiveNext]_vars /\ WF_vars(SolverStep)

\* -------------------------------------------------------------- cache
\* iter().position(|k| k == key) on a VecDeque: the first index, 0 if none.
DequePosition(q, key) ==
    IF \E i \in 1..Len(q) : q[i] = key
    THEN CHOOSE i \in 1..Len(q) : q[i] = key /\ \A j \in 1..(i-1) : q[j] # key
    ELSE 0

\* VecDeque::remove(pos)
DequeRemove(q, pos) == [i \in 1..(Len(q)-1) |-> IF i < pos THEN q[i] ELSE q[i+1]]

\* VecDeque::pop_front(): the Option<K> returned and the deque left.
PopFront(q) ==
    IF q = <<>> THEN [key |-> <<>>, rest |-> <<>>]
    ELSE [key |-> <<Head(q)>>, rest |-> Tail(q)]

\* Mutant of LRUPolicy_on_access: the access is ignored.
LRUPolicy_on_access_ignored(q, key) == q

\* LRUPolicy::on_access: the key, if tracked, moves to the back.
LRUPolicy_on_access(q, key) ==
    IF DequePosition(q, key) # 0
    THEN Append(DequeRemove(q, DequePosition(q, key)), key)
    ELSE q

\* LRUPolicy::on_insert
LRUPolicy_on_insert(q, key) == Append(q, key)

\* LRUPolicy::evict
LRUPolicy_evict(q) == PopFront(q)

\* Mutant of FIFOPolicy_on_access: the key moves to the back.
FIFOPolicy_on_access_moves(q, key) ==
    IF DequePosition(q, key) # 0
    THEN Append(DequeRemove(q, DequePosition(q, key)), key)
    ELSE q

\* FIFOPolicy::on_access
FIFOPolicy_on_access(q, key) == q

\* FIFOPolicy::on_insert
FIFOPolicy_on_insert(q, key) == Append(q, key)

\* FIFOPolicy::evict
FIFOPolicy_evict(q) == PopFront(q)

\* HashMap::insert on the store
StoreInsert(m, k, v) == [x \in (DOMAIN m) \cup {k} |-> IF x = k THEN v ELSE m[x]]

\* HashMap::remove on the store
StoreRemove(m, k) == [x \in (DOMAIN m) \ {k} |-> m[x]]

\* Cache::len
CacheLen == Cardinality(DOMAIN store)

\* Times are kept as ranks 1, 2, ...: only their order is observed.
Ranks(f) == [k \in DOMAIN f |-> Cardinality({j \in DOMAIN f : f[j] <= f[k]})]

\* The key gets a time later than every other.
Touch(f, k) ==
    Ranks([x \in (DOMAIN f) \cup {k} |-> IF x = k THEN Cardinality(DOMAIN f) + 1 ELSE f[x]])

\* The keys of ks lose their time.
Forget(f, ks) == Ranks([x \in (DOMAIN f) \ ks |-> f[x]])

\* self.policy.on_access(key) of the cache's policy
OnAccess(key) ==
    IF policy = "LRU"
    THEN access_order' = LRUPolicy_on_access(access_order, key) /\ UNCHANGED queue
    ELSE queue' = FIFOPolicy_on_access(queue, key) /\ UNCHANGED access_order

\* pub fn get(&mut self, key)
Get(key) ==
    /\ policy # "none"
    /\ IF key \in DOMAIN store
       THEN /\ OnAccess(key)
            /\ got' = <<store[key]>>
            /\ used' = Touch(used, key)
       ELSE /\ got' = <<>>
            /\ UNCHANGED <<access_order, queue, used>>
    /\ call' = [op |-> "get", key |-> key]
    /\ evicted' = <<>>
    /\ UNCHANGED <<store, policy, capacity, inserted>>
    /\ UNCHANGED solverVars

\* pub fn put(&mut self, key, value)
Put(key, value) ==
    /\ policy # "none"
    /\ IF key \in DOMAIN store
       THEN /\ OnAccess(key)
            /\ store' = StoreInsert(store, key, value)
            /\ used' = Touch(used, key)
            /\ evicted' = <<>>
            /\ UNCHANGED inserted
       ELSE LET full == CacheLen >= capacity
                out == IF ~full THEN <<>>
                       ELSE IF policy = "LRU" THEN LRUPolicy_evict(access_order).key
                       ELSE FIFOPolicy_evict(queue).key
                gone == {k \in DOMAIN store : out = <<k>>}
                store1 == IF out = <<>> THEN store ELSE StoreRemove(store, out[1])
            IN /\ IF policy = "LRU"
                  THEN /\ access_order' = LRUPolicy_on_insert(
                              IF full THEN LRUPolicy_evict(access_order).rest
                              ELSE access_order, key)
                       /\ UNCHANGED queue
                  ELSE /\ queue' = FIFOPolicy_on_insert(
                              IF full THEN FIFOPolicy_evict(queue).rest ELSE queue, key)
                       /\ UNCHANGED access_order
               /\ store' = StoreInsert(store1, key, value)
               /\ used' = Touch(Forget(used, gone), key)
               /\ inserted' = Touch(Forget(inserted, gone), key)
               /\ evicted' = IF gone = {} THEN <<>>
                             ELSE <<[key |-> out[1], used |-> used[out[1]],
                                     inserted |-> inserted[out[1]]]>>
    /\ call' = [op |-> "put", key |-> key]
    /\ UNCHANGED <<policy, capacity, got>>
    /\ UNCHANGED solverVars

\* No solver has been created.
NoSolver ==
    /\ clauses = <<>>
    /\ num_vars = 0
    /\ phase = "none"
    /\ stack = <<>>
    /\ ret = None
    /\ branches = 0
    /\ props = 0
    /\ first = NoFirst
    /\ simplified = <<>>

\* Cache::new(capacity, LRUPolicy::new()) or Cache::new(capacity, FIFOPolicy::new())
CacheInit ==
    /\ NoSolver
    /\ store = <<>>
    /\ policy \in {"LRU", "FIFO"}
    /\ access_order = <<>>
    /\ queue = <<>>
    /\ capacity \in 0..MaxCapacity
    /\ got = <<>>
    /\ call = NoCall
    /\ used = <<>>
    /\ inserted = <<>>
    /\ evicted = <<>>

CacheNext ==
    \/ \E key \in 1..MaxKey : Get(key)
    \/ \E key \in 1..MaxKey : \E value \in 1..MaxValue : Put(key, value)

CacheSpec == CacheInit /\ [][CacheNext]_vars

\* ------------------------------------------------------------- claims
\* solve() has returned.
Done == phase = "done"

\* The clause has a literal whose variable the assignment maps to the value
\* the literal requires.
Satisfies(a, c) ==
    \E i \in 1..Len(c) : c[i].id \in DOMAIN a /\ a[c[i].id] = ~c[i].negated

SatisfiesAll(a, cl) == \A i \in 1..Len(cl) : Satisfies(a, cl[i])

\* The variables that occur in the formula.
IdsOf(cl) == UNION {{cl[i][j].id : j \in 1..Len(cl[i])} : i \in 1..Len(cl)}

\* Some total assignment of the formula's variables satisfies every clause.
HasModel(cl) == \E a \in [IdsOf(cl) -> BOOLEAN] : SatisfiesAll(a, cl)

\* C1 (as claimed): whenever solve() returns Satisfiable(assignment), every
\* clause of the formula has a literal that the assignment makes true.
C1_Soundness ==
    (Done /\ ret.kind = "Satisfiable") => SatisfiesAll(ret.assignment, clauses)

\* C2: solve() returns Unsatisfiable only for a formula that no total
\* assignment of its variables satisfies.
C2_UnsatOnlyIfNoModel ==
    (Done /\ ret.kind = "Unsatisfiable") => ~HasModel(clauses)

\* C2 witness: an Unsatisfiable answer of a call that took a branching step
\* (both branches failed), for a formula without an empty clause.
C2_Witness ==
    Done /\ ret.kind = "Unsatisfiable" /\ branches >= 1 /\ \A i \in 1..Len(clauses) : clauses[i] # <<>>

\* C3: every solve() that starts returns, with Satisfiable or Unsatisfiable.
C3_Terminates ==
    (phase = "solving") ~> (Done /\ ret.kind \in {"Satisfiable", "Unsatisfiable"})

\* C3 witness: a solve() that has returned after unit propagation and after
\* a branching step whose two branches were both tried.
C3_Witness == Done /\ props >= 1 /\ branches >= 2

\* A second solve() has been started after a first one returned.
SolvedTwice == first # NoFirst

\* C4: a second solve() of the same clauses in the same order returns what
\* the first returned: the same verdict and the same assignment.
C4_Deterministic ==
    (Done /\ SolvedTwice /\ first.clauses = clauses) => ret = first.result

\* C4 witness: two Satisfiable runs of a formula that made the solver branch
\* and assign two variables.
C4_Witness ==
    /\ Done /\ SolvedTwice /\ first.clauses = clauses
    /\ ret.kind = "Satisfiable" /\ branches >= 1
    /\ Cardinality(DOMAIN ret.assignment) >= 2

\* C5 (as claimed): a formula and any reordering of its clauses get the same
\* verdict.
C5_OrderIndependentVerdict ==
    (Done /\ SolvedTwice) => ret.kind = first.result.kind

\* The formula holds a clause with no literal.
ContainsEmpty(cl) == \E i \in 1..Len(cl) : Len(cl[i]) = 0

\* C6: a formula with an empty clause is answered Unsatisfiable; the empty
\* clause stays in the working formula of every call, and no call returns
\* Satisfiable.
C6_EmptyClauseUnsat ==
    ContainsEmpty(clauses) =>
        /\ Done => ret = Unsatisfiable
        /\ ret.kind # "Satisfiable"
        /\ \A i \in 1..Len(stack) : ContainsEmpty(stack[i].clauses)

\* C6 witness: an Unsatisfiable answer with the empty clause last, after
\* unit propagation has simplified the formula.
C6_Witness ==
    /\ Done /\ ret = Unsatisfiable /\ props >= 1
    /\ Len(clauses) = MaxClauses /\ Len(clauses[1]) > 0
    /\ clauses[Len(clauses)] = <<>>

\* C7: a solver without clauses answers Satisfiable with no variable assigned,
\* whatever num_vars is.
C7_EmptyFormula ==
    (Done /\ clauses = <<>>) => (ret.kind = "Satisfiable" /\ DOMAIN ret.assignment = {})

\* C7 witness: solve() has returned for no clauses and a positive num_vars.
C7_Witness == Done /\ clauses = <<>> /\ num_vars > 0 /\ ret.kind = "Satisfiable"

\* The formula holds the unit clauses [x] and [not x] of one variable.
HasContradictoryUnits(cl) ==
    \E i, j \in 1..Len(cl) :
        /\ Len(cl[i]) = 1 /\ Len(cl[j]) = 1
        /\ cl[i][1].id = cl[j][1].id
        /\ cl[i][1].negated # cl[j][1].negated

Forced(cl, v, b) ==
    /\ HasModel(cl)
    /\ \A a \in [IdsOf(cl) -> BOOLEAN] : SatisfiesAll(a, cl) => a[v] = b

\* (a or b), (not a or b) over two distinct variables.
IsScenarioA(cl, a, b) ==
    /\ a # b
    /\ cl = << <<[id |-> a, negated |-> FALSE], [id |-> b, negated |-> FALSE]>>,
               <<[id |-> a, negated |-> TRUE], [id |-> b, negated |-> FALSE]>> >>

\* C9 (as claimed): (a or b), (not a or b) is answered Satisfiable with b
\* true, and a Satisfiable result gives every variable that has one value in
\* all satisfying assignments that value.
C9_ForcedVariable ==
    Done =>
        /\ \A a, b \in 1..MaxId : IsScenarioA(clauses, a, b) =>
              /\ ret.kind = "Satisfiable"
              /\ b \in DOMAIN ret.assignment /\ ret.assignment[b]
        /\ ret.kind = "Satisfiable" =>
              \A v \in IdsOf(clauses) : \A b \in BOOLEAN :
                  Forced(clauses, v, b) =>
                      (v \in DOMAIN ret.assignment /\ ret.assignment[v] = b)

\* Unit propagation as the specification defines it (every occurrence of the
\* falsified literal is struck) empties the formula without a conflict.
RECURSIVE PropagationAloneSolves(_)
PropagationAloneSolves(cl) ==
    IF cl = <<>> THEN TRUE
    ELSE IF \A i \in 1..Len(cl) : Len(cl[i]) # 1 THEN FALSE
    ELSE LET i == CHOOSE k \in 1..Len(cl) :
                      Len(cl[k]) = 1 /\ \A j \in 1..(k-1) : Len(cl[j]) # 1
             l == cl[i][1]
             nl == [id |-> l.id, negated |-> ~l.negated]
             kept == SelectSeq(cl, LAMBDA c : \A j \in 1..Len(c) : c[j] # l)
             struck == [k \in 1..Len(kept) |-> SelectSeq(kept[k], LAMBDA x : x # nl)]
         IN IF \E k \in 1..Len(struck) : struck[k] = <<>> THEN FALSE
            ELSE PropagationAloneSolves(struck)

\* [x1], [not x1 or x2], [not x2 or x3]
Chain ==
    << <<[id |-> 1, negated |-> FALSE]>>,
       <<[id |-> 1, negated |-> TRUE], [id |-> 2, negated |-> FALSE]>>,
       <<[id |-> 2, negated |-> TRUE], [id |-> 3, negated |-> FALSE]>> >>

\* C10 (as claimed): the chain is answered x1 = x2 = x3 = true without a
\* branching step, and so is every formula that unit propagation alone
\* reduces to zero clauses.
C10_PropagationChain ==
    Done =>
        /\ clauses = Chain =>
              /\ ret = Satisfiable([v \in 1..3 |-> TRUE])
              /\ branches = 0
        /\ PropagationAloneSolves(clauses) =>
              (ret.kind = "Satisfiable" /\ branches = 0)

\* C11: solve() leaves the stored formula as the add_clause calls built it:
\* no step of a solve(), first or repeated, changes the solver's clauses (their
\* order, their literals, duplicates included) or num_vars; only the working
\* copies in the dpll_solve calls change.
C11_FormulaUnchanged ==
    [][phase' # "building" => (clauses' = clauses /\ num_vars' = num_vars)]_vars

\* C11 witness: a second solve() has returned after propagating and branching
\* on its working copy, and the solver still holds the clauses of the first.
C11_Witness ==
    /\ Done /\ SolvedTwice /\ props >= 1 /\ branches >= 1
    /\ clauses # <<>> /\ first.clauses = clauses

\* A dpll_solve call is about to read clauses[0][0] (line 103).
AtBranch(f) == f.pc \in {"branch", "right"}

\* The calls in progress are where the code can go on from: the innermost at
\* a statement of its own or at a call that has just returned a Solution,
\* every other one waiting for the call it made.
CanStep ==
    /\ stack # <<>>
    /\ \A i \in 1..(Len(stack) - 1) : stack[i].pc \in {"left", "right_call"}
    /\ \/ Top.pc \in {"propagate", "branch", "right"}
       \/ Top.pc \in {"left", "right_call"} /\ ret.kind \in {"Satisfiable", "Unsatisfiable"}

\* C12: solve() never aborts and ends with a Solution: a call in progress
\* always has a next step, the read of the first literal of the first clause
\* happens only on a working formula that is non-empty and has no empty
\* clause, the value returned is Satisfiable or Unsatisfiable, and the same
\* clauses give the same result under every declared num_vars, ids above
\* num_vars included.
C12_NoExceptionalExit ==
    /\ phase = "solving" =>
          /\ CanStep
          /\ \A i \in 1..Len(stack) : AtBranch(stack[i]) =>
                 /\ stack[i].clauses # <<>>
                 /\ ~HasEmptyClause(stack[i].clauses)
    /\ Done => ret.kind \in {"Satisfiable", "Unsatisfiable"}
    /\ (Done /\ SolvedTwice) => ret = first.result

\* C12 witness: a formula with a repeated literal over an id above both
\* declared num_vars has been solved under the two of them, with a branching
\* step.
C12_Witness ==
    /\ Done /\ SolvedTwice /\ num_vars # first.num_vars
    /\ branches >= 1
    /\ \E i \in 1..Len(clauses) : \E j, k \in 1..Len(clauses[i]) :
           /\ j # k /\ clauses[i][j] = clauses[i][k]
           /\ clauses[i][j].id > num_vars /\ clauses[i][j].id > first.num_vars

\* The step is a put of a key that is not stored, on a full cache.
InsertsWhenFull ==
    call'.op = "put" /\ call'.key \notin DOMAIN store /\ CacheLen >= capacity

\* The step is a get of a stored key.
GetHits == call'.op = "get" /\ call'.key \in DOMAIN store

\* The step is a put of a key that is stored.
PutUpdates == call'.op = "put" /\ call'.key \in DOMAIN store

\* The stored keys whose time in f is the oldest (one key, or none if
\* nothing is stored).
Oldest(f) == {k \in DOMAIN store : \A j \in DOMAIN store : f[k] <= f[j]}

\* C13: in an LRU cache, a put that inserts a new key into a full cache
\* evicts the stored key whose last use (a get that hit, the put that
\* inserted it, a put that updated it) is the oldest and no other key; every
\* other stored key keeps its value, and a get of a stored key returns the
\* stored value.
C13_LRUEvictsLeastRecentlyUsed ==
    [][policy = "LRU" =>
          /\ InsertsWhenFull =>
                /\ DOMAIN store' = ((DOMAIN store) \ Oldest(used)) \cup {call'.key}
                /\ \A k \in (DOMAIN store) \ Oldest(used) : store'[k] = store[k]
          /\ GetHits => (got' = <<store[call'.key]>> /\ store' = store)]_vars

\* C13 witness: a full LRU cache of the largest capacity has just evicted a
\* key that was not the earliest inserted: a later use of an older key
\* decided.
C13_Witness ==
    /\ policy = "LRU" /\ capacity = MaxCapacity /\ CacheLen = capacity
    /\ evicted # <<>> /\ evicted[1].used = 1 /\ evicted[1].inserted > 1

\* C14: in a FIFO cache, a put that inserts a new key into a full cache
\* evicts the stored key that was inserted earliest and no other key; a get
\* and a put that updates a stored key leave the key to be evicted next as it
\* was.
C14_FIFOEvictsEarliestInserted ==
    [][policy = "FIFO" =>
          /\ InsertsWhenFull =>
                DOMAIN store' = ((DOMAIN store) \ Oldest(inserted)) \cup {call'.key}
          /\ (call'.op = "get" \/ PutUpdates) =>
                /\ FIFOPolicy_evict(queue').key = FIFOPolicy_evict(queue).key
                /\ Oldest(inserted)' = Oldest(inserted)]_vars

\* C14 witness: a full FIFO cache of the largest capacity has just evicted
\* the earliest inserted key although that key was used after another
\* stored key.
C14_Witness ==
    /\ policy = "FIFO" /\ capacity = MaxCapacity /\ CacheLen = capacity
    /\ evicted # <<>> /\ evicted[1].inserted = 1 /\ evicted[1].used > 1

\* The literal occurs in the clause.
Occurs(c, l) == \E j \in 1..Len(c) : c[j] = l

\* The literal of the same variable and the other polarity.
Negation(l) == [id |-> l.id, negated |-> ~l.negated]

\* The clause without any occurrence of the literal.
Without(c, l) == SelectSeq(c, LAMBDA x : x # l)

\* The clause without the literals at the positions D, the others in order.
DropAt(c, D) ==
    LET keep == (1..Len(c)) \ D
    IN [n \in 1..Cardinality(keep) |->
           c[CHOOSE j \in keep : Cardinality({k \in keep : k <= j}) = n]]

\* C15 (as claimed): whenever simplify(formula, lit) reports no conflict, no
\* clause of the resulting formula contains not(lit) and none contains lit,
\* clauses with a repeated literal included.
C15_StrikesEveryFalsifiedLiteral ==
    \A i \in 1..Len(simplified) :
        simplified[i].ok =>
            \A k \in 1..Len(simplified[i].after) :
                /\ ~Occurs(simplified[i].after[k], Negation(simplified[i].lit))
                /\ ~Occurs(simplified[i].after[k], simplified[i].lit)

\* C16: simplify(formula, lit) deletes exactly the clauses that contain lit
\* and keeps the others in their order; each kept clause is left as it was
\* except that occurrences of not(lit) may be gone: no other literal is
\* removed, added or moved.
C16_RemovesSatisfiedClausesOnly ==
    \A i \in 1..Len(simplified) :
        LET r == simplified[i]
            kept == SelectSeq(r.before, LAMBDA c : ~Occurs(c, r.lit))
        IN /\ Len(r.after) = Len(kept)
           /\ \A k \in 1..Len(kept) :
                 \E D \in SUBSET {j \in 1..Len(kept[k]) : kept[k][j] = Negation(r.lit)} :
                     r.after[k] = DropAt(kept[k], D)

\* C16 witness: of two clauses the one that contains lit was deleted and the
\* other lost not(lit) and kept a literal of another variable.
C16_Witness ==
    /\ Len(simplified) >= 1 /\ simplified[1].ok
    /\ Len(simplified[1].before) = 2 /\ Len(simplified[1].after) = 1
    /\ Occurs(simplified[1].before[1], simplified[1].lit)
    /\ simplified[1].after[1] # simplified[1].before[2]
    /\ \E j \in 1..Len(simplified[1].after[1]) :
           simplified[1].after[1][j].id # simplified[1].lit.id

\* C17 (as claimed): simplify(formula, lit) reports a conflict exactly when
\* some clause without lit has no literal left once not(lit) has been
\* removed from it.
C17_ConflictIffClauseEmptied ==
    \A i \in 1..Len(simplified) :
        (~simplified[i].ok) <=>
            \E k \in 1..Len(simplified[i].before) :
                /\ ~Occurs(simplified[i].before[k], simplified[i].lit)
                /\ Occurs(simplified[i].before[k], Negation(simplified[i].lit))
                /\ Without(simplified[i].before[k], Negation(simplified[i].lit)) = <<>>

\* C18 (as claimed): simplifying the result of a successful simplify with a
\* literal that occurs in none of its clauses in either polarity, and in
\* particular with the same literal again, succeeds and changes nothing.
C18_Idempotent ==
    Len(simplified) = 2 =>
        /\ (\A k \in 1..Len(simplified[1].after) :
                /\ ~Occurs(simplified[1].after[k], simplified[2].lit)
                /\ ~Occurs(simplified[1].after[k], Negation(simplified[2].lit)))
             => (simplified[2].ok /\ simplified[2].after = simplified[1].after)
        /\ simplified[2].lit = simplified[1].lit
             => (simplified[2].ok /\ simplified[2].after = simplified[1].after)

\* The innermost call is at a pass of unit propagation that finds a clause
\* of length one.
AtUnitPass ==
    /\ phase = "solving" /\ stack # <<>>
    /\ Top.pc = "propagate"
    /\ \E i \in 1..Len(Top.clauses) : Len(Top.clauses[i]) = 1

\* The literal of the first clause of length one of the working formula.
FirstUnitLiteral ==
    LET cl == Top.clauses
        i == CHOOSE k \in 1..Len(cl) :
                 Len(cl[k]) = 1 /\ \A j \in 1..(k-1) : Len(cl[j]) # 1
    IN cl[i][1]

\* The assignment with the literal made true.
Forcing(a, l) ==
    [x \in (DOMAIN a) \cup {l.id} |-> IF x = l.id THEN ~l.negated ELSE a[x]]

\* C19: each pass of unit propagation forces the literal of the first clause
\* of length one in the current order of the working formula: a pass that
\* goes on leaves the call with that literal made true in its assignment and
\* no clause that contains it, and a pass that returns Satisfiable returns
\* the assignment with that literal made true.
C19_UnitSelectionOrder ==
    [][AtUnitPass =>
          \/ /\ Len(stack') = Len(stack) - 1
             /\ ret' = Unsatisfiable
          \/ /\ Len(stack') = Len(stack) - 1
             /\ ret' = Satisfiable(Forcing(Top.assignment, FirstUnitLiteral))
          \/ /\ Len(stack') = Len(stack)
             /\ stack'[Len(stack)].assignment = Forcing(Top.assignment, FirstUnitLiteral)
             /\ \A k \in 1..Len(stack'[Len(stack)].clauses) :
                    ~Occurs(stack'[Len(stack)].clauses[k], FirstUnitLiteral)]_vars

\* C19 witness: of two unit clauses over different variables the first has
\* been processed and the second is still in the working formula.
C19_Witness ==
    /\ phase = "solving" /\ Len(stack) = 1 /\ props = 1
    /\ Len(clauses) = 2 /\ Len(clauses[1]) = 1 /\ Len(clauses[2]) = 1
    /\ clauses[1][1].id # clauses[2][1].id
    /\ Top.pc = "propagate"
    /\ Top.clauses = <<clauses[2]>>
    /\ DOMAIN Top.assignment = {clauses[1][1].id}

\* C20: a pass of unit propagation whose literal needs the value opposite to
\* the one its variable has in the assignment ends the call with
\* Unsatisfiable at once: the callers are left as they were, nothing is
\* simplified and no branching step is taken.
C20_PropagationConflict ==
    [][(/\ AtUnitPass
        /\ FirstUnitLiteral.id \in DOMAIN Top.assignment
        /\ Top.assignment[FirstUnitLiteral.id] = FirstUnitLiteral.negated)
       => /\ stack' = SubSeq(stack, 1, Len(stack) - 1)
          /\ ret' = Unsatisfiable
          /\ branches' = branches]_vars

\* C20 witness: [x1], [not x1, not x1] has been answered Unsatisfiable by
\* the second pass, which found the unit clause [not x1] with x1 true.
C20_Witness ==
    /\ Done /\ ret = Unsatisfiable /\ props = 2 /\ branches = 0
    /\ clauses = << <<[id |-> 1, negated |-> FALSE]>>,
                    <<[id |-> 1, negated |-> TRUE], [id |-> 1, negated |-> TRUE]>> >>

\* The innermost call is in its propagation loop.
AtPropagate == phase = "solving" /\ stack # <<>> /\ Top.pc = "propagate"

\* The step ends the innermost call.
Returns == Len(stack') = Len(stack) - 1

\* The step opens a call.
Calls == Len(stack') = Len(stack) + 1

\* C21: a call returns Satisfiable of its own (from its propagation loop, not
\* from a call it made) only when its working formula has no clause left:
\* none at all, or none once the clauses that contain the unit literal just
\* forced are removed; the assignment returned is the call's assignment,
\* with that literal made true if one was forced.  The assignment of a call
\* is the one its caller had with the branching variable added, and a pass
\* of propagation adds the forced literal only.
C21_SatisfiableOnlyOnEmptyFormula ==
    [][/\ (AtPropagate /\ Returns /\ ret'.kind = "Satisfiable") =>
             IF AtUnitPass
             THEN /\ \A k \in 1..Len(Top.clauses) : Occurs(Top.clauses[k], FirstUnitLiteral)
                  /\ ret'.assignment = Forcing(Top.assignment, FirstUnitLiteral)
             ELSE /\ Top.clauses = <<>>
                  /\ ret'.assignment = Top.assignment
       /\ (AtPropagate /\ ~Returns) =>
             stack'[Len(stack)].assignment =
                 IF AtUnitPass THEN Forcing(Top.assignment, FirstUnitLiteral)
                 ELSE Top.assignment
       /\ (phase = "solving" /\ Calls) =>
             \E b \in BOOLEAN :
                 stack'[Len(stack')].assignment =
                     [x \in (DOMAIN Top.assignment) \cup {Top.clauses[1][1].id} |->
                         IF x = Top.clauses[1][1].id THEN b ELSE Top.assignment[x]]]_vars

\* C21 witness: a Satisfiable result reached by branching that leaves a
\* variable of the formula without a value.
C21_Witness ==
    /\ Done /\ ret.kind = "Satisfiable" /\ branches >= 1
    /\ \E v \in IdsOf(clauses) : v \notin DOMAIN ret.assignment

\* The innermost call is at the statement named.
At(pc) == phase = "solving" /\ stack # <<>> /\ Top.pc = pc

\* The variable of the first literal of the first clause of the working
\* formula of the innermost call.
FirstVariable == Top.clauses[1][1].id

\* The assignment with the variable given the value.
Giving(a, v, b) == [x \in (DOMAIN a) \cup {v} |-> IF x = v THEN b ELSE a[x]]

\* C22: a branching step branches on the variable of the first literal of
\* the first clause of the working formula that propagation left: the call it
\* opens first has that variable true, the call it opens for the False
\* branch has it false, and the False branch is entered only from the True
\* branch (its simplification conflicted or its call has returned).
C22_BranchingVariableChoice ==
    [][/\ (At("branch") /\ Calls) =>
             /\ stack'[Len(stack')].assignment = Giving(Top.assignment, FirstVariable, TRUE)
             /\ stack'[Len(stack)].pc = "left"
       /\ (At("branch") /\ ~Calls) =>
             (Len(stack') = Len(stack) /\ stack'[Len(stack)].pc = "right")
       /\ (At("right") /\ Calls) =>
             stack'[Len(stack')].assignment = Giving(Top.assignment, FirstVariable, FALSE)
       /\ (phase' = "solving" /\ stack' # <<>> /\ stack'[Len(stack')].pc = "right") =>
             \/ At("right") /\ UNCHANGED stack
             \/ At("branch") /\ Len(stack') = Len(stack)
             \/ At("left") /\ Len(stack') = Len(stack) /\ ret.kind # "Satisfiable"]_vars

\* C22 witness: the False branch of a first clause over two variables is
\* being explored with its first variable false, after the True branch was
\* explored by propagation and failed.
C22_Witness ==
    /\ phase = "solving" /\ Len(stack) = 2 /\ props >= 1
    /\ stack[1].pc = "right_call"
    /\ stack[2].assignment = Giving(EmptyMap, clauses[1][1].id, FALSE)
    /\ \E j \in 1..Len(clauses[1]) : clauses[1][j].id # clauses[1][1].id

\* C23 (as claimed): at every branching step the variable chosen, the
\* variable of the first literal of the first clause, is not a key of the
\* call's assignment.
C23_BranchVariableUnassigned ==
    \A i \in 1..Len(stack) :
        stack[i].pc = "branch" =>
            stack[i].clauses[1][1].id \notin DOMAIN stack[i].assignment

\* C26 (as claimed): the dpll_solve calls nested by branching (the calls in
\* progress besides the one solve() made) are never more than the distinct
\* variables of the formula.
C26_RecursionDepthBound ==
    phase = "solving" => Len(stack) - 1 <= Cardinality(IdsOf(clauses))

\* C28 (as claimed): a variable that has a value in the assignment of a call
\* has the same value in the assignment of every call nested inside it.
C28_NeverOverwritten ==
    \A i, j \in 1..Len(stack) :
        i < j =>
            \A v \in DOMAIN stack[i].assignment :
                /\ v \in DOMAIN stack[j].assignment
                /\ stack[j].assignment[v] = stack[i].assignment[v]

\* The step ends the innermost call with the result named.
ReturnsWith(s) == stack' = SubSeq(stack, 1, Len(stack) - 1) /\ ret' = s

\* C24: when the call of the True branch has returned Satisfiable(a), the
\* branching step returns Satisfiable(a) and never enters its False branch;
\* when it has returned Unsatisfiable, or the True branch conflicted on
\* simplification, the step goes on to the False branch and returns what that
\* branch gives: Unsatisfiable if its simplification conflicts, else the
\* result of its call.
C24_FirstFound ==
    [][/\ (At("left") /\ ret.kind = "Satisfiable") => ReturnsWith(ret)
       /\ (At("left") /\ ret.kind # "Satisfiable") =>
             (Len(stack') = Len(stack) /\ stack'[Len(stack)].pc = "right")
       /\ (At("branch") /\ ~Calls) =>
             (Len(stack') = Len(stack) /\ stack'[Len(stack)].pc = "right")
       /\ (At("right") /\ ~Calls) => ReturnsWith(Unsatisfiable)
       /\ (At("right") /\ Calls) => stack'[Len(stack)].pc = "right_call"
       /\ At("right_call") => ReturnsWith(ret)]_vars

\* C24 witness: for a formula without unit clause solve() has returned the
\* Satisfiable result of the False branch of its one branching step, entered
\* after the call of the True branch propagated and failed.
C24_Witness ==
    /\ Done /\ ret.kind = "Satisfiable" /\ branches = 1 /\ props >= 1
    /\ \A i \in 1..Len(clauses) : Len(clauses[i]) >= 2
    /\ clauses[1][1].id \in DOMAIN ret.assignment
    /\ ~ret.assignment[clauses[1][1].id]

\* The clauses and the assignment of a call.
Snapshot(f) == <<f.clauses, f.assignment>>

\* The formula is the other one simplified for the variable being false:
\* the clauses without the negative literal, in order, each with nothing but
\* positive literals of the variable missing.
FalseBranchOf(after, before, v) ==
    LET kept == SelectSeq(before, LAMBDA c : ~Occurs(c, [id |-> v, negated |-> TRUE]))
    IN /\ Len(after) = Len(kept)
       /\ \A k \in 1..Len(kept) :
             \E D \in SUBSET {j \in 1..Len(kept[k]) :
                                 kept[k][j] = [id |-> v, negated |-> FALSE]} :
                 after[k] = DropAt(kept[k], D)

\* C25: the False branch starts from the working formula and assignment the
\* call had just before its True branch: no step changes a call that waits
\* for a call it made, a call keeps its clauses and assignment from the
\* branching step through the True branch to the False branch, and the call
\* opened for the False branch gets that assignment with the variable false
\* and that formula simplified for it.
C25_BranchIsolation ==
    [][/\ \A i \in 1..(Len(stack) - 1) : i <= Len(stack') => stack'[i] = stack[i]
       /\ (At("branch") \/ At("left") \/ At("right")) =>
             (Len(stack') >= Len(stack) =>
                 Snapshot(stack'[Len(stack)]) = Snapshot(Top))
       /\ (At("right") /\ Calls) =>
             /\ stack'[Len(stack')].assignment = Giving(Top.assignment, FirstVariable, FALSE)
             /\ FalseBranchOf(stack'[Len(stack')].clauses, Top.clauses, FirstVariable)]_vars

\* C25 witness: the call of the False branch has been opened on the formula
\* as built, after the call of the True branch had simplified its own copy
\* by propagation and failed.
C25_Witness ==
    /\ phase = "solving" /\ Len(stack) = 2 /\ props >= 1 /\ branches = 1
    /\ stack[1].pc = "right_call"
    /\ Snapshot(stack[1]) = <<clauses, EmptyMap>>
    /\ stack[2].pc = "propagate"
    /\ DOMAIN stack[2].assignment = {clauses[1][1].id}

\* C27: every variable that has a value in a Satisfiable result, and in the
\* assignment of any call on the way to it, occurs in a clause of the
\* formula; a variable of 1..num_vars that occurs in no clause has no value.
C27_AssignmentInsideFormula ==
    /\ \A i \in 1..Len(stack) : DOMAIN stack[i].assignment \subseteq IdsOf(clauses)
    /\ ret.kind = "Satisfiable" => DOMAIN ret.assignment \subseteq IdsOf(clauses)

\* C27 witness: a Satisfiable result that gives a value to a variable of the
\* formula and none to the declared variable 1, which is in no clause.
C27_Witness ==
    /\ Done /\ ret.kind = "Satisfiable" /\ DOMAIN ret.assignment # {}
    /\ num_vars >= 1 /\ 1 \notin IdsOf(clauses)

\* No clause holds the same literal twice.
NoRepeatedLiteral(cl) ==
    \A i \in 1..Len(cl) : \A j, k \in 1..Len(cl[i]) : cl[i][j] = cl[i][k] => j = k

\* No literal of the working formula of the call is over a variable that has
\* a value in its assignment.
FreeOfAssigned(f) ==
    \A i \in 1..Len(f.clauses) : \A j \in 1..Len(f.clauses[i]) :
        f.clauses[i][j].id \notin DOMAIN f.assignment

\* C29: for a formula in which no clause holds the same literal twice, the
\* working formula of every call in progress holds no literal over a variable
\* assigned in that call, a Satisfiable result satisfies every clause of the
\* formula, and an Unsatisfiable result is given only if no assignment
\* satisfies it.
C29_SoundWithoutRepeatedLiterals ==
    NoRepeatedLiteral(clauses) =>
        /\ \A i \in 1..Len(stack) : FreeOfAssigned(stack[i])
        /\ (Done /\ ret.kind = "Satisfiable") => SatisfiesAll(ret.assignment, clauses)
        /\ (Done /\ ret.kind = "Unsatisfiable") => ~HasModel(clauses)

\* C29 witness: a formula without repeated literal and with a tautological
\* clause has been answered Satisfiable after propagation and branching.
C29_Witness ==
    /\ Done /\ NoRepeatedLiteral(clauses) /\ ret.kind = "Satisfiable"
    /\ props >= 1 /\ branches >= 1
    /\ \E i \in 1..Len(clauses) : \E j, k \in 1..Len(clauses[i]) :
           clauses[i][j] = Negation(clauses[i][k])

\* The keys the policy of the cache tracks.
Tracked ==
    IF policy = "LRU" THEN {access_order[i] : i \in 1..Len(access_order)}
    ELSE {queue[i] : i \in 1..Len(queue)}

\* C30 (as claimed): after any sequence of put and get calls on a cache of
\* any capacity, 0 included, and either policy, len() is at most the capacity
\* and the keys the policy tracks are the keys of the store.
C30_CapacityInvariant ==
    policy # "none" =>
        /\ CacheLen <= capacity
        /\ Tracked = DOMAIN store

====
